---- MODULE Spec2Model ----
(***************************************************************************)
(* DbPointRecord (src/src/DbPointRecord.cpp): a point record that answers  *)
(* lookups from an in-memory buffer tier (its base class,                  *)
(* BufferPointRecord) and falls back to a backing-store adapter            *)
(* (DbAdapter), remembering the last request it sent to the store.         *)
(*                                                                         *)
(* BufferPointRecord, TimeRange, Point and DbAdapter are declared outside  *)
(* the sources at hand; they are modelled from their documented contract.  *)
(***************************************************************************)
EXTENDS Integers, Sequences, FiniteSets, TLC

(***************************************************************************)
(* Bounds of the model.                                                    *)
(***************************************************************************)
\* stored points sit on a grid of time instants 0, TickSeconds, ..., MaxTick*TickSeconds
MaxTick == 2
TickSeconds == 12 * 60 * 60
Ticks == 0..MaxTick
Times == {k * TickSeconds : k \in Ticks}
\* series identifiers
Ids == {"A", "B"}
\* names offered to registration (the empty name is rejected)
Names == Ids \cup {""}
\* unit descriptors; NoUnits is RTX_NO_UNITS
NoUnits == "none"
Units == {NoUnits, "u1", "u2"}
\* marks a name the registry does not hold
Absent == "absent"
\* quality codes carried by raw points of the store
Codes == {0, 1}
\* quality codes offered to the filter's code set
FilterCodes == {0}

(***************************************************************************)
(* Program constants.                                                      *)
(***************************************************************************)
_DB_MAX_CONNECT_TRY == 5
margin == 60 * 60 * 12
iterativeSearchMaxIterations == 8
iterativeSearchStride == 3 * 60 * 60
opc_rtx_override == 512

FilterTypes == {"OpcPassThrough", "OpcWhiteList", "OpcBlackList",
                "OpcCodesToValues", "OpcCodesToConfidence"}

(***************************************************************************)
(* Point and TimeRange.                                                    *)
(***************************************************************************)
\* Point(time, value, quality, confidence): a valid point
MkPoint(t, v, q, c) ==
  [time |-> t, value |-> v, quality |-> q, confidence |-> c, isValid |-> TRUE]

\* Point(): the invalid point, "no data here"
NoPoint ==
  [time |-> 0, value |-> 0, quality |-> 0, confidence |-> 0, isValid |-> FALSE]

\* TimeRange(start, end)
TimeRange(s, e) == [start |-> s, end |-> e]

\* TimeRange(): the zero range
EmptyRange == TimeRange(0, 0)

\* TimeRange::contains(t)
RangeContains(r, t) == r.start <= t /\ t <= r.end

\* TimeRange::containsRange(other)
containsRange(r, other) == r.start <= other.start /\ other.end <= r.end

\* TimeRange::intersection(other): this range is the reference, other the
\* query. The four overlap patterns exclude one another: internal is the query
\* inside the reference, external the query surrounding it on both sides.
intersection(r, q) ==
  IF r.start <= q.start /\ q.end <= r.end THEN "intersect_other_internal"
  ELSE IF q.start < r.start /\ r.end < q.end THEN "intersect_other_external"
  ELSE IF q.start < r.start /\ r.start <= q.end /\ q.end <= r.end THEN "intersect_left"
  ELSE IF r.start <= q.start /\ q.start <= r.end /\ q.end > r.end THEN "intersect_right"
  ELSE "intersect_none"

\* the points of a set, which holds one point per time, in time order
RECURSIVE SortByTime(_)
SortByTime(S) ==
  IF S = {} THEN << >>
  ELSE LET m == CHOOSE p \in S : \A q \in S : p.time <= q.time
       IN  <<m>> \o SortByTime(S \ {m})

SeqToSet(s) == {s[i] : i \in 1..Len(s)}

(***************************************************************************)
(* request_t: the memoized request.                                        *)
(***************************************************************************)
request_t(id, range) == [id |-> id, range |-> range]

\* request_t::contains(id, t)
RequestContains(req, id, t) ==
  req.range.start <= t /\ t <= req.range.end /\ id = req.id

\* request_t::clear()
RequestCleared == request_t("", EmptyRange)

(***************************************************************************)
(* Buffer tier (BufferPointRecord): per identifier a set of points, one    *)
(* per time.                                                               *)
(***************************************************************************)
\* BufferPointRecord::point
BufPoint(buf, id, t) ==
  IF \E p \in buf[id] : p.time = t
  THEN CHOOSE p \in buf[id] : p.time = t
  ELSE NoPoint

\* BufferPointRecord::pointBefore
BufPointBefore(buf, id, t) ==
  LET S == {p \in buf[id] : p.time < t}
  IN  IF S = {} THEN NoPoint
      ELSE CHOOSE p \in S : \A q \in S : q.time <= p.time

\* BufferPointRecord::pointAfter
BufPointAfter(buf, id, t) ==
  LET S == {p \in buf[id] : p.time > t}
  IN  IF S = {} THEN NoPoint
      ELSE CHOOSE p \in S : \A q \in S : p.time <= q.time

\* BufferPointRecord::pointsInRange
BufPointsInRange(buf, id, r) ==
  SortByTime({p \in buf[id] : r.start <= p.time /\ p.time <= r.end})

\* BufferPointRecord::range
BufRange(buf, id) ==
  IF buf[id] = {} THEN EmptyRange
  ELSE TimeRange((CHOOSE p \in buf[id] : \A q \in buf[id] : p.time <= q.time).time,
                 (CHOOSE p \in buf[id] : \A q \in buf[id] : q.time <= p.time).time)

\* BufferPointRecord::addPoint: upsert by (id, time)
BufAddPoint(buf, id, p) ==
  [buf EXCEPT ![id] = {q \in @ : q.time # p.time} \cup {p}]

\* BufferPointRecord::addPoints
RECURSIVE BufAddPoints(_, _, _)
BufAddPoints(buf, id, pts) ==
  IF pts = << >> THEN buf
  ELSE BufAddPoints(BufAddPoint(buf, id, Head(pts)), id, Tail(pts))

\* BufferPointRecord::reset()
BufReset(buf) == [i \in Ids |-> {}]

\* BufferPointRecord::reset(id)
BufResetId(buf, id) == [buf EXCEPT ![id] = {}]

(***************************************************************************)
(* State.                                                                  *)
(***************************************************************************)
VARIABLES
  store,        \* adapter: the backing store's points, per identifier
  registry,     \* adapter: the backing store's identifier -> units list
  options,      \* adapter: its capability flags, fixed per adapter
  connected,    \* adapter: adapterConnected()
  reachable,    \* environment: whether a doConnect() succeeds
  buffer,       \* buffer tier: cached points, per identifier
  bufIds,       \* buffer tier: locally registered identifier -> units
  _last_request,              \* the memoized request
  _readOnly,                  \* the caller's readonly flag as kept by the record
  _filterType,                \* quality filter type
  _opcFilterCodes,            \* quality filter code set
  _identifiersAndUnitsCache,  \* last identifier list fetched from the adapter
  _db_pr_mtx,   \* the record's mutex: 0 when free, else the thread holding it
  thread,       \* per calling thread: its position in its call, and its last call
  requested,    \* history: the value last passed to setReadonly
  op,           \* history: the last operation, its arguments and its result
  calls         \* history: the adapter calls the last operation made, in order

vars == <<store, registry, options, connected, reachable, buffer, bufIds,
          _last_request, _readOnly, _filterType, _opcFilterCodes,
          _identifiersAndUnitsCache, _db_pr_mtx, thread, requested, op, calls>>

\* the threads that share the record
Threads == {1, 2}

\* a thread that has not called yet. pc is "idle" outside a call and "read"
\* between a call's read of the buffer and the memoized request and its
\* write of them; n counts the thread's completed calls; the other fields
\* describe its current or last call (asked: it queried the adapter)
IdleThread ==
  [pc |-> "idle", n |-> 0, name |-> "", id |-> "", start |-> 0, end |-> 0,
   ret |-> << >>, asked |-> FALSE, isect |-> "", cached |-> [start |-> 0, end |-> 0]]

\* one adapter call, as logged in calls
Call(fn, id, start, end) == [fn |-> fn, id |-> id, start |-> start, end |-> end]

\* the record of an operation kept in op
OpRec(name, id, start, end) ==
  [name |-> name, id |-> id, start |-> start, end |-> end, units |-> NoUnits,
   ret |-> << >>, ok |-> FALSE, isect |-> "", cached |-> EmptyRange,
   wasEmpty |-> FALSE, listed |-> Absent, adapterOk |-> FALSE]

(***************************************************************************)
(* Adapter (DbAdapter).                                                    *)
(***************************************************************************)
\* DbAdapter::selectRange: the store's points of id inside the closed range
selectRange(id, r) ==
  SortByTime({p \in store[id] : r.start <= p.time /\ p.time <= r.end})

\* DbAdapter::selectPrevious: the store's last point of id before t
selectPrevious(id, t) ==
  LET S == {p \in store[id] : p.time < t}
  IN  IF S = {} THEN NoPoint
      ELSE CHOOSE p \in S : \A q \in S : q.time <= p.time

\* DbAdapter::selectNext: the store's first point of id after t
selectNext(id, t) ==
  LET S == {p \in store[id] : p.time > t}
  IN  IF S = {} THEN NoPoint
      ELSE CHOOSE p \in S : \A q \in S : p.time <= q.time

\* DbAdapter::insertSingle: upsert by (id, time)
insertSingle(st, id, p) ==
  [st EXCEPT ![id] = {q \in @ : q.time # p.time} \cup {p}]

\* DbAdapter::insertRange
RECURSIVE insertRange(_, _, _)
insertRange(st, id, pts) ==
  IF pts = << >> THEN st
  ELSE insertRange(insertSingle(st, id, Head(pts)), id, Tail(pts))

(***************************************************************************)
(* Quality filter.                                                         *)
(***************************************************************************)
\* a filter table whose WhiteList entry drops the listed codes as the
\* BlackList entry does
opcFiltersListsAlike(type, codes, p) ==
  IF type \in {"OpcWhiteList", "OpcBlackList"}
  THEN IF p.quality \in codes
       THEN NoPoint
       ELSE MkPoint(p.time, p.value, opc_rtx_override, p.confidence)
  ELSE p

\* the closure setOpcFilterType installs for a filter type
opcFilters(type, codes, p) ==
  CASE type = "OpcPassThrough" -> p
    [] type = "OpcWhiteList" ->
         IF p.quality \in codes
         THEN MkPoint(p.time, p.value, opc_rtx_override, p.confidence)
         ELSE NoPoint
    [] type = "OpcBlackList" ->
         IF p.quality \in codes
         THEN NoPoint
         ELSE MkPoint(p.time, p.value, opc_rtx_override, p.confidence)
    [] type = "OpcCodesToValues" ->
         MkPoint(p.time, p.quality, opc_rtx_override, p.confidence)
    [] type = "OpcCodesToConfidence" ->
         MkPoint(p.time, p.value, opc_rtx_override, p.quality)

\* DbPointRecord::pointWithOpcFilter
pointWithOpcFilter(p) == opcFilters(_filterType, _opcFilterCodes, p)

\* DbPointRecord::pointsWithOpcFilter
RECURSIVE pointsWithOpcFilter(_)
pointsWithOpcFilter(points) ==
  IF points = << >> THEN << >>
  ELSE LET outPoint == pointWithOpcFilter(Head(points))
       IN  (IF outPoint.isValid THEN <<outPoint>> ELSE << >>)
             \o pointsWithOpcFilter(Tail(points))

(***************************************************************************)
(* Connection.                                                             *)
(*                                                                         *)
(* The operators below thread a record s through the code of one           *)
(* operation: s.buffer, s.memo and s.connected are the buffer tier, the    *)
(* memoized request and the adapter's connection as the operation has left *)
(* them so far, s.calls the adapter calls made so far.                     *)
(***************************************************************************)
Begin ==
  [buffer |-> buffer, memo |-> _last_request, connected |-> connected,
   calls |-> << >>, ret |-> << >>, isect |-> "", cached |-> EmptyRange]

\* DbPointRecord::dbConnect
dbConnect(s) ==
  [s EXCEPT !.connected = reachable,
            !.calls = Append(@, Call("doConnect", "", 0, 0))]

\* a retry condition that allows twice the attempts
retryConnectTwiceAsLong(s, iTry) == ~s.connected /\ iTry + 1 < 2 * _DB_MAX_CONNECT_TRY

\* the condition of checkConnected's retry loop
retryConnect(s, iTry) == ~s.connected /\ iTry + 1 < _DB_MAX_CONNECT_TRY

\* DbPointRecord::checkConnected: the retry loop
RECURSIVE ConnectLoop(_, _)
ConnectLoop(s, iTry) ==
  IF retryConnect(s, iTry)
  THEN ConnectLoop(dbConnect(s), iTry + 1)
  ELSE s

\* a connection check that takes the store to be there
checkConnectedAssumed(s) == [s EXCEPT !.connected = TRUE]

checkConnected(s) == ConnectLoop(s, 0)

(***************************************************************************)
(* Lookups.                                                                *)
(***************************************************************************)
\* DeDupe without the check of addedTimes: every point in range is kept
RECURSIVE DeDupeKeepsAll(_, _, _)
DeDupeKeepsAll(merged, addedTimes, qrange) ==
  IF merged = << >> THEN << >>
  ELSE LET p == Head(merged)
       IN  (IF qrange.start <= p.time /\ p.time <= qrange.end
            THEN <<p>> ELSE << >>)
             \o DeDupeKeepsAll(Tail(merged), addedTimes \cup {p.time}, qrange)

\* the de-duplication loop of pointsInRange: first occurrence of a time wins,
\* points outside the query range are dropped
RECURSIVE DeDupe(_, _, _)
DeDupe(merged, addedTimes, qrange) ==
  IF merged = << >> THEN << >>
  ELSE LET p == Head(merged)
       IN  IF p.time \notin addedTimes
           THEN (IF qrange.start <= p.time /\ p.time <= qrange.end
                 THEN <<p>> ELSE << >>)
                  \o DeDupe(Tail(merged), addedTimes \cup {p.time}, qrange)
           ELSE DeDupe(Tail(merged), addedTimes, qrange)

\* FetchParts whose left-fill query asks for the whole query range
FetchPartsFullLeft(s, id, qrange, range, intersect) ==
  CASE intersect = "intersect_left" ->
         [left   |-> << >>,
          middle |-> pointsWithOpcFilter(selectRange(id, qrange)),
          right  |-> BufPointsInRange(s.buffer, id, TimeRange(range.start, qrange.end)),
          calls  |-> <<Call("selectRange", id, qrange.start, qrange.end)>>]
    [] intersect = "intersect_right" ->
         LET n_range == TimeRange(range.end, qrange.end)
         IN  [left   |-> BufPointsInRange(s.buffer, id, TimeRange(qrange.start, range.end)),
              middle |-> pointsWithOpcFilter(selectRange(id, n_range)),
              right  |-> << >>,
              calls  |-> <<Call("selectRange", id, n_range.start, n_range.end)>>]
    [] intersect = "intersect_other_external" ->
         LET q_left  == TimeRange(qrange.start, range.start)
             q_right == TimeRange(range.end, qrange.end)
         IN  [left   |-> pointsWithOpcFilter(selectRange(id, q_left)),
              middle |-> BufPointsInRange(s.buffer, id, range),
              right  |-> pointsWithOpcFilter(selectRange(id, q_right)),
              calls  |-> <<Call("selectRange", id, q_left.start, q_left.end),
                           Call("selectRange", id, q_right.start, q_right.end)>>]
    [] OTHER ->
         [left   |-> << >>,
          middle |-> pointsWithOpcFilter(selectRange(id, qrange)),
          right  |-> << >>,
          calls  |-> <<Call("selectRange", id, qrange.start, qrange.end)>>]

\* the fetch branch of pointsInRange: which adapter calls are made and how
\* left, middle and right are filled, by intersection type
FetchParts(s, id, qrange, range, intersect) ==
  CASE intersect = "intersect_left" ->
         LET n_range == TimeRange(qrange.start, range.start)
         IN  [left   |-> << >>,
              middle |-> pointsWithOpcFilter(selectRange(id, n_range)),
              right  |-> BufPointsInRange(s.buffer, id, TimeRange(range.start, qrange.end)),
              calls  |-> <<Call("selectRange", id, n_range.start, n_range.end)>>]
    [] intersect = "intersect_right" ->
         LET n_range == TimeRange(range.end, qrange.end)
         IN  [left   |-> BufPointsInRange(s.buffer, id, TimeRange(qrange.start, range.end)),
              middle |-> pointsWithOpcFilter(selectRange(id, n_range)),
              right  |-> << >>,
              calls  |-> <<Call("selectRange", id, n_range.start, n_range.end)>>]
    [] intersect = "intersect_other_external" ->
         LET q_left  == TimeRange(qrange.start, range.start)
             q_right == TimeRange(range.end, qrange.end)
         IN  [left   |-> pointsWithOpcFilter(selectRange(id, q_left)),
              middle |-> BufPointsInRange(s.buffer, id, range),
              right  |-> pointsWithOpcFilter(selectRange(id, q_right)),
              calls  |-> <<Call("selectRange", id, q_left.start, q_left.end),
                           Call("selectRange", id, q_right.start, q_right.end)>>]
    [] OTHER ->
         [left   |-> << >>,
          middle |-> pointsWithOpcFilter(selectRange(id, qrange)),
          right  |-> << >>,
          calls  |-> <<Call("selectRange", id, qrange.start, qrange.end)>>]

\* RangeRequest that forgets the query range also after a non-empty fetch
RangeRequestForgets(id, qrange, deDuped) == request_t(id, EmptyRange)

\* the request pointsInRange memoizes after a fetch
RangeRequest(id, qrange, deDuped) ==
  IF Len(deDuped) > 0 THEN request_t(id, qrange) ELSE request_t(id, EmptyRange)

\* the fetch of pointsInRange, taken when the buffer's span does not cover
\* the query: the parts, their merge, the memo and the write-back
RangeFetch(c, id, qrange, range, intersect) ==
  LET parts   == FetchParts(c, id, qrange, range, intersect)
      merged  == parts.left \o parts.middle \o parts.right
      deDuped == DeDupe(merged, {}, qrange)
  IN  [c EXCEPT
         !.memo   = RangeRequest(id, qrange, deDuped),
         !.buffer = BufAddPoints(c.buffer, id, deDuped),
         !.calls  = @ \o parts.calls,
         !.ret    = deDuped,
         !.isect  = intersect,
         !.cached = range]

\* DbPointRecord::pointsInRange
pointsInRange(s, id, qrange) ==
  IF containsRange(s.memo.range, qrange) /\ s.memo.id = id
  THEN [s EXCEPT !.ret = BufPointsInRange(s.buffer, id, qrange), !.isect = "memo"]
  ELSE
    LET c == checkConnected(s)
    IN  IF ~c.connected
        THEN [c EXCEPT !.ret = BufPointsInRange(c.buffer, id, qrange),
                       !.isect = "unconnected"]
        ELSE
          LET range     == BufRange(c.buffer, id)
              intersect == intersection(range, qrange)
          IN  IF intersect = "intersect_other_internal"
              THEN [c EXCEPT !.ret = BufPointsInRange(c.buffer, id, qrange),
                             !.isect = intersect, !.cached = range]
              ELSE RangeFetch(c, id, qrange, range, intersect)

\* the scan of point() over the fetched points for the exact time
RECURSIVE ScanForTime(_, _, _)
ScanForTime(pVec, time, p) ==
  IF pVec = << >> THEN p
  ELSE IF Head(pVec).time = time THEN ScanForTime(Tail(pVec), time, Head(pVec))
  ELSE IF Head(pVec).time > time THEN p
  ELSE ScanForTime(Tail(pVec), time, p)

\* PointRequest that remembers the queried window after an empty fetch
PointRequestKeepsWindow(id, pVec, start, end) ==
  IF Len(pVec) > 0
  THEN request_t(id, TimeRange(pVec[1].time, pVec[Len(pVec)].time))
  ELSE request_t(id, TimeRange(start, end))

\* the request point() memoizes after its fetch of [start, end]
PointRequest(id, pVec, start, end) ==
  IF Len(pVec) > 0
  THEN request_t(id, TimeRange(pVec[1].time, pVec[Len(pVec)].time))
  ELSE request_t(id, EmptyRange)

\* the fetch of point(), taken when neither the buffer nor the memoized
\* request answers: the window around time, the memo, the scan, the write-back
PointFetch(c, id, time, p) ==
  LET start == time - margin
      end   == time + margin
      pVec  == pointsWithOpcFilter(selectRange(id, TimeRange(start, end)))
  IN  [c EXCEPT
         !.calls  = Append(@, Call("selectRange", id, start, end)),
         !.memo   = PointRequest(id, pVec, start, end),
         !.buffer = BufAddPoints(c.buffer, id, pVec),
         !.ret    = <<ScanForTime(pVec, time, p)>>]

\* DbPointRecord::point
point(s, id, time) ==
  LET p == BufPoint(s.buffer, id, time)
      c == checkConnected(s)
  IN  IF ~c.connected THEN [c EXCEPT !.ret = <<p>>]
      ELSE IF p.isValid THEN [c EXCEPT !.ret = <<p>>]
      ELSE IF RequestContains(c.memo, id, time) THEN [c EXCEPT !.ret = <<NoPoint>>]
      ELSE PointFetch(c, id, time, p)

\* one probe of the iterative search: pointsInRange over the window r; the
\* window and whether it held points are noted after the probe's own calls
Probe(s, id, r) ==
  LET q == pointsInRange(s, id, r)
  IN  [q EXCEPT !.calls = Append(@, Call(IF Len(q.ret) = 0 THEN "probeEmpty" ELSE "probeFound",
                                         id, r.start, r.end))]

\* a search that goes on probing after a window held points
keepSearchingPastFound(points, limit) == limit > 0

\* the loop condition of the iterative searches
keepSearching(points, limit) == Len(points) = 0 /\ limit > 0

\* the probing loop of searchPreviousIteratively
RECURSIVE SearchPreviousLoop(_, _, _, _)
SearchPreviousLoop(s, id, r, lookBehindLimit) ==
  IF keepSearching(s.ret, lookBehindLimit)
  THEN SearchPreviousLoop(Probe(s, id, r), id,
                          TimeRange(r.start - iterativeSearchStride,
                                    r.end - iterativeSearchStride),
                          lookBehindLimit - 1)
  ELSE s

\* DbPointRecord::searchPreviousIteratively
searchPreviousIteratively(s, id, time) ==
  LET c == checkConnected(s)
  IN  IF ~c.connected THEN [c EXCEPT !.ret = <<NoPoint>>]
      ELSE
        LET f == SearchPreviousLoop([c EXCEPT !.ret = << >>], id,
                                    TimeRange(time - iterativeSearchStride, time - 1),
                                    iterativeSearchMaxIterations)
        IN  [f EXCEPT !.ret = IF Len(f.ret) > 0 THEN <<f.ret[Len(f.ret)]>>
                                                ELSE <<NoPoint>>]

\* the probing loop of searchNextIteratively
RECURSIVE SearchNextLoop(_, _, _, _)
SearchNextLoop(s, id, r, lookAheadLimit) ==
  IF keepSearching(s.ret, lookAheadLimit)
  THEN SearchNextLoop(Probe(s, id, r), id,
                      TimeRange(r.start + iterativeSearchStride,
                                r.end + iterativeSearchStride),
                      lookAheadLimit - 1)
  ELSE s

\* DbPointRecord::searchNextIteratively
searchNextIteratively(s, id, time) ==
  LET c == checkConnected(s)
  IN  IF ~c.connected THEN [c EXCEPT !.ret = <<NoPoint>>]
      ELSE
        LET f == SearchNextLoop([c EXCEPT !.ret = << >>], id,
                                TimeRange(time + 1, time + iterativeSearchStride),
                                iterativeSearchMaxIterations)
        IN  [f EXCEPT !.ret = IF Len(f.ret) > 0 THEN <<f.ret[1]>> ELSE <<NoPoint>>]

\* a bound lookup that queries whatever the adapter declares
singlyBoundUnchecked == TRUE

\* the guard of the singly-bounded query in pointBefore / pointAfter
singlyBound == options.supportsSinglyBoundQuery

\* the tail of pointBefore / pointAfter once the adapter is connected:
\* iterative search, then the singly-bounded query
BoundTail(c, iter, single, fn, id, time) ==
  IF options.searchIteratively /\ iter.ret[1].isValid
  THEN [iter EXCEPT !.ret = <<pointWithOpcFilter(iter.ret[1])>>]
  ELSE
    LET a == IF options.searchIteratively THEN iter ELSE c
    IN  IF singlyBound
        THEN [a EXCEPT
                !.calls = Append(@, Call(fn, id, time, time)),
                !.ret   = <<IF single.isValid THEN pointWithOpcFilter(single)
                                              ELSE single>>]
        ELSE [a EXCEPT !.ret = <<NoPoint>>]

\* DbPointRecord::pointBefore
pointBefore(s, id, time) ==
  LET p == BufPointBefore(s.buffer, id, time)
  IN  IF p.isValid THEN [s EXCEPT !.ret = <<p>>]
      ELSE IF RequestContains(s.memo, id, time - 1) THEN [s EXCEPT !.ret = <<NoPoint>>]
      ELSE
        LET c == checkConnected(s)
        IN  IF ~c.connected THEN [c EXCEPT !.ret = <<p>>]
            ELSE BoundTail(c, searchPreviousIteratively(c, id, time),
                           selectPrevious(id, time), "selectPrevious", id, time)

\* DbPointRecord::pointAfter
pointAfter(s, id, time) ==
  LET p == BufPointAfter(s.buffer, id, time)
  IN  IF p.isValid THEN [s EXCEPT !.ret = <<p>>]
      ELSE IF RequestContains(s.memo, id, time + 1) THEN [s EXCEPT !.ret = <<NoPoint>>]
      ELSE
        LET c == checkConnected(s)
        IN  IF ~c.connected THEN [c EXCEPT !.ret = <<p>>]
            ELSE BoundTail(c, searchNextIteratively(c, id, time),
                           selectNext(id, time), "selectNext", id, time)

(***************************************************************************)
(* Readonly policy.                                                        *)
(***************************************************************************)
\* a flag that follows the caller's request alone
readonlyAsRequested == _readOnly

\* DbPointRecord::readonly
readonly == IF options.implementationReadonly THEN TRUE ELSE _readOnly

\* DbPointRecord::setReadonly: the value _readOnly takes
setReadonlyValue(readOnly) ==
  IF options.implementationReadonly THEN FALSE ELSE readOnly

(***************************************************************************)
(* Inputs of the operations.                                               *)
(***************************************************************************)
\* points are written at the instants of ticks 1..MaxWriteTick
MaxWriteTick == 1
\* the series producers write: the one the store holds raw points for
WriteIds == {"A"}
\* the raw point the backing store may hold at a tick
RawPoint(k) == MkPoint(k * TickSeconds, 1, k % 2, 1)
\* the point a producer writes at a tick
WritePoint(k) == MkPoint(k * TickSeconds, 2, 0, 1)
WritePoints == {WritePoint(k) : k \in 1..MaxWriteTick}
\* the batches offered to addPoints: one point, or two points in time order
WriteBatches ==
  {<<w>> : w \in WritePoints}
    \cup {<<v, w>> : <<v, w>> \in {x \in WritePoints \X WritePoints : x[1].time < x[2].time}}

\* what a step leaves alone
AdapterData == <<store, registry, options, reachable>>
Registration == <<bufIds, _identifiersAndUnitsCache>>
FilterState == <<_filterType, _opcFilterCodes>>
Threading == <<_db_pr_mtx, thread>>

\* the end of a lookup: the threaded record becomes the new state
Commit(r) ==
  /\ buffer' = r.buffer
  /\ _last_request' = r.memo
  /\ connected' = r.connected
  /\ calls' = r.calls

(***************************************************************************)
(* Operations of the record.                                               *)
(***************************************************************************)
DoPointsInRange ==
  \E id \in Ids, a \in Times, b \in Times :
    /\ a <= b
    /\ LET r == pointsInRange(Begin, id, TimeRange(a, b))
       IN  /\ Commit(r)
           /\ op' = [OpRec("pointsInRange", id, a, b) EXCEPT
                       !.ret = r.ret, !.isect = r.isect, !.cached = r.cached,
                       !.wasEmpty = (buffer[id] = {})]
    /\ UNCHANGED <<AdapterData, Registration, FilterState, _readOnly, requested, Threading>>

DoPoint ==
  \E id \in Ids, t \in Times :
    /\ LET r == point(Begin, id, t)
       IN  /\ Commit(r)
           /\ op' = [OpRec("point", id, t, t) EXCEPT
                       !.ret = r.ret, !.wasEmpty = (buffer[id] = {})]
    /\ UNCHANGED <<AdapterData, Registration, FilterState, _readOnly, requested, Threading>>

DoPointBefore ==
  \E id \in Ids, t \in Times :
    /\ LET r == pointBefore(Begin, id, t)
       IN  /\ Commit(r)
           /\ op' = [OpRec("pointBefore", id, t, t) EXCEPT
                       !.ret = r.ret, !.wasEmpty = (buffer[id] = {})]
    /\ UNCHANGED <<AdapterData, Registration, FilterState, _readOnly, requested, Threading>>

DoPointAfter ==
  \E id \in Ids, t \in Times :
    /\ LET r == pointAfter(Begin, id, t)
       IN  /\ Commit(r)
           /\ op' = [OpRec("pointAfter", id, t, t) EXCEPT
                       !.ret = r.ret, !.wasEmpty = (buffer[id] = {})]
    /\ UNCHANGED <<AdapterData, Registration, FilterState, _readOnly, requested, Threading>>

\* DbPointRecord::setReadonly
DoSetReadonly ==
  \E readOnly \in BOOLEAN :
    /\ _readOnly' = setReadonlyValue(readOnly)
    /\ requested' = readOnly
    /\ op' = [OpRec("setReadonly", "", 0, 0) EXCEPT !.ok = readOnly]
    /\ calls' = << >>
    /\ UNCHANGED <<AdapterData, Registration, FilterState, connected, buffer,
                   _last_request, Threading>>

\* a write that goes through whenever a connection is at hand
canWriteWhenConnected(c) == c.connected

\* the guard of addPoint and addPoints: !readonly() && checkConnected(),
\* c being the record after the guard's connection attempts
canWrite(c) == ~readonly /\ c.connected

\* DbPointRecord::addPoint
addPoint(id, p) ==
  /\ LET c == IF ~readonly THEN checkConnected(Begin) ELSE Begin
     IN  /\ connected' = c.connected
         /\ IF canWrite(c)
            THEN /\ buffer' = BufAddPoint(buffer, id, p)
                 /\ store' = insertSingle(store, id, p)
                 /\ calls' = Append(c.calls, Call("insertSingle", id, p.time, p.time))
            ELSE /\ calls' = c.calls
                 /\ UNCHANGED <<buffer, store>>
  /\ op' = [OpRec("addPoint", id, p.time, p.time) EXCEPT !.ret = <<p>>]
  /\ UNCHANGED <<registry, options, reachable, Registration, FilterState,
                 _last_request, _readOnly, requested, Threading>>

\* a producer writes a point
DoAddPoint == \E id \in WriteIds, p \in WritePoints : addPoint(id, p)

\* DbPointRecord::addPoints
DoAddPoints ==
  \E id \in WriteIds, points \in WriteBatches :
    /\ LET c == IF ~readonly THEN checkConnected(Begin) ELSE Begin
       IN  /\ connected' = c.connected
           /\ IF canWrite(c)
              THEN /\ buffer' = BufAddPoints(buffer, id, points)
                   /\ store' = insertRange(store, id, points)
                   /\ calls' = Append(c.calls,
                                      Call("insertRange", id, points[1].time,
                                           points[Len(points)].time))
              ELSE /\ calls' = c.calls
                   /\ UNCHANGED <<buffer, store>>
    /\ op' = [OpRec("addPoints", id, points[1].time, points[Len(points)].time)
                EXCEPT !.ret = points]
    /\ UNCHANGED <<registry, options, reachable, Registration, FilterState,
                   _last_request, _readOnly, requested, Threading>>

\* DbPointRecord::reset()
DoReset ==
  /\ LET c == IF ~readonly THEN checkConnected(Begin) ELSE Begin
     IN  /\ connected' = c.connected
         /\ calls' = c.calls
         /\ buffer' = IF ~readonly /\ c.connected THEN BufReset(buffer) ELSE buffer
  /\ op' = OpRec("reset", "", 0, 0)
  /\ UNCHANGED <<AdapterData, Registration, FilterState, _last_request,
                 _readOnly, requested, Threading>>

\* DbPointRecord::reset(id)
DoResetId ==
  \E id \in Ids :
    /\ LET c == IF ~readonly THEN checkConnected(Begin) ELSE Begin
       IN  /\ connected' = c.connected
           /\ calls' = c.calls
           /\ IF ~readonly /\ c.connected
              THEN /\ buffer' = BufResetId(buffer, id)
                   /\ _last_request' = RequestCleared
              ELSE UNCHANGED <<buffer, _last_request>>
    /\ op' = OpRec("resetId", id, 0, 0)
    /\ UNCHANGED <<AdapterData, Registration, FilterState, _readOnly, requested, Threading>>

\* DbAdapter::removeRecord: the record and its points leave the store
removeRecordStore(st, id) == [st EXCEPT ![id] = {}]
removeRecordRegistry(reg, id) == [reg EXCEPT ![id] = Absent]

\* an invalidate whose reset(id) asks the adapter to remove the record again
invalidateCallsTwice(c, id) ==
  c.calls \o <<Call("removeRecord", id, 0, 0), Call("removeRecord", id, 0, 0)>>

\* the adapter calls of invalidate: the connection attempts of its guard,
\* then removeRecord; reset(id) adds none
invalidateCalls(c, id) == Append(c.calls, Call("removeRecord", id, 0, 0))

\* DbPointRecord::invalidate
DoInvalidate ==
  \E id \in Ids :
    /\ LET c == IF ~readonly THEN checkConnected(Begin) ELSE Begin
       IN  /\ connected' = c.connected
           /\ IF ~readonly /\ c.connected
              THEN \* removeRecord, then reset(id), which finds the record
                   \* writable and connected again
                   /\ store' = removeRecordStore(store, id)
                   /\ registry' = removeRecordRegistry(registry, id)
                   /\ calls' = invalidateCalls(c, id)
                   /\ buffer' = BufResetId(buffer, id)
                   /\ _last_request' = RequestCleared
              ELSE /\ calls' = c.calls
                   /\ UNCHANGED <<store, registry, buffer, _last_request>>
    /\ op' = OpRec("invalidate", id, 0, 0)
    /\ UNCHANGED <<options, reachable, Registration, FilterState, _readOnly,
                   requested, Threading>>

(***************************************************************************)
(* Quality filter configuration.                                           *)
(***************************************************************************)
\* a filter type that is installed anew whatever the current one is
filterTypeAlwaysDiffers(type) == TRUE

\* the guard of setOpcFilterType: the type differs from the current one
filterTypeDiffers(type) == _filterType # type

\* DbPointRecord::setOpcFilterType
DoSetOpcFilterType ==
  \E type \in FilterTypes :
    /\ IF filterTypeDiffers(type)
       THEN /\ buffer' = BufReset(buffer)
            /\ _filterType' = type
       ELSE UNCHANGED <<buffer, _filterType>>
    /\ op' = [OpRec("setOpcFilterType", type, 0, 0) EXCEPT
                !.wasEmpty = (\A i \in Ids : buffer[i] = {})]
    /\ calls' = << >>
    /\ UNCHANGED <<AdapterData, Registration, connected, _opcFilterCodes,
                   _last_request, _readOnly, requested, Threading>>

\* DbPointRecord::clearOpcFilterList
DoClearOpcFilterList ==
  /\ _opcFilterCodes' = {}
  /\ buffer' = BufReset(buffer)
  /\ LET c == dbConnect(Begin)
     IN  connected' = c.connected /\ calls' = c.calls
  /\ op' = OpRec("clearOpcFilterList", "", 0, 0)
  /\ UNCHANGED <<AdapterData, Registration, _filterType, _last_request,
                 _readOnly, requested, Threading>>

\* DbPointRecord::addOpcFilterCode
DoAddOpcFilterCode ==
  \E code \in FilterCodes :
    /\ _opcFilterCodes' = _opcFilterCodes \cup {code}
    /\ buffer' = BufReset(buffer)
    /\ LET c == dbConnect(Begin)
       IN  connected' = c.connected /\ calls' = c.calls
    /\ op' = OpRec("addOpcFilterCode", "", code, code)
    /\ UNCHANGED <<AdapterData, Registration, _filterType, _last_request,
                   _readOnly, requested, Threading>>

\* DbPointRecord::removeOpcFilterCode
DoRemoveOpcFilterCode ==
  \E code \in FilterCodes :
    /\ IF code \in _opcFilterCodes
       THEN /\ _opcFilterCodes' = _opcFilterCodes \ {code}
            /\ buffer' = BufReset(buffer)
            /\ LET c == dbConnect(Begin)
               IN  connected' = c.connected /\ calls' = c.calls
       ELSE /\ calls' = << >>
            /\ UNCHANGED <<_opcFilterCodes, buffer, connected>>
    /\ op' = [OpRec("removeOpcFilterCode", "", code, code) EXCEPT
                !.ok = (code \in _opcFilterCodes)]
    /\ UNCHANGED <<AdapterData, Registration, _filterType, _last_request,
                   _readOnly, requested, Threading>>

(***************************************************************************)
(* Registration.                                                           *)
(***************************************************************************)
\* an identifier list without entries
NoIds == [n \in Ids |-> Absent]

\* IdentifierUnitsList::doesHaveIdUnits: <<nameExists, unitsMatch>>
doesHaveIdUnits(list, name, units) ==
  <<list[name] # Absent, list[name] # Absent /\ list[name] = units>>

\* DbPointRecord::identifiersAndUnits: the cached list while it is fresh and
\* not empty, else the adapter's list (the record is connected when
\* registration gets here)
identifiersAndUnits(fresh) ==
  IF fresh /\ _identifiersAndUnitsCache # NoIds
  THEN [list |-> _identifiersAndUnitsCache, calls |-> << >>]
  ELSE [list |-> registry, calls |-> <<Call("idUnitsList", "", 0, 0)>>]

\* BufferPointRecord::registerAndGetIdentifierForSeriesWithUnits
BufRegister(ids, name, units) == [ids EXCEPT ![name] = units]

\* DbAdapter::insertIdentifierAndUnits: a name already there is left as it is
insertIdentifierAndUnits(reg, name, units) ==
  IF reg[name] = Absent THEN [reg EXCEPT ![name] = units] ELSE reg

\* DbAdapter::assignUnitsToRecord: sets the units of an existing record
assignUnitsToRecord(reg, name, units) ==
  IF reg[name] # Absent THEN [reg EXCEPT ![name] = units] ELSE reg

\* the branches of registerAndGetIdentifierForSeriesWithUnits once the record
\* is connected. existingUnits is never assigned after its initialisation.
\* adapterOk is the result of the adapter's insert or assign call.
RegisterConnected(name, units, list, adapterOk) ==
  LET match         == doesHaveIdUnits(list, name, units)
      nameExists    == match[1]
      unitsMatch    == match[2]
      existingUnits == NoUnits
      none   == [ok |-> FALSE, calls |-> << >>, registry |-> registry, bufIds |-> bufIds,
                 store |-> store]
      local  == [none EXCEPT !.ok = TRUE, !.bufIds = BufRegister(bufIds, name, units)]
      assign == [none EXCEPT
                   !.calls = <<Call("assignUnitsToRecord", name, 0, 0)>>,
                   !.registry = IF adapterOk
                                THEN assignUnitsToRecord(registry, name, units)
                                ELSE registry]
  IN
  IF readonly
  THEN IF nameExists /\ (unitsMatch \/ ~options.supportsUnitsColumn)
       THEN local
       ELSE IF options.canAssignUnits /\ existingUnits = NoUnits
            THEN [assign EXCEPT !.ok = TRUE,
                                !.bufIds = BufRegister(bufIds, name, units)]
            ELSE none
  ELSE IF nameExists /\ ~unitsMatch
       THEN IF existingUnits = NoUnits
            THEN IF options.canAssignUnits
                 THEN [assign EXCEPT !.ok = adapterOk /\ registry[name] # Absent]
                 ELSE none
            ELSE [local EXCEPT
                    !.calls = <<Call("removeRecord", name, 0, 0)>>,
                    !.registry = removeRecordRegistry(registry, name),
                    !.store = removeRecordStore(store, name)]
       ELSE IF ~nameExists \/ ~unitsMatch
            THEN IF adapterOk
                 THEN [local EXCEPT
                         !.calls = <<Call("insertIdentifierAndUnits", name, 0, 0)>>,
                         !.registry = insertIdentifierAndUnits(registry, name, units)]
                 ELSE [none EXCEPT
                         !.calls = <<Call("insertIdentifierAndUnits", name, 0, 0)>>]
            ELSE IF nameExists /\ unitsMatch
                 THEN local
                 ELSE none

\* DbPointRecord::registerAndGetIdentifierForSeriesWithUnits, from the name
\* check on; fresh says whether the cached identifier list is younger than
\* five seconds
Register(name, units, fresh, adapterOk) ==
    /\ IF name = ""
       THEN /\ op' = [OpRec("register", name, 0, 0) EXCEPT !.units = units]
            /\ calls' = << >>
            /\ UNCHANGED <<connected, registry, store, bufIds,
                           _identifiersAndUnitsCache>>
       ELSE
         LET c == checkConnected(Begin)
         IN  /\ connected' = c.connected
             /\ IF ~c.connected
                THEN /\ bufIds' = BufRegister(bufIds, name, units)
                     /\ calls' = c.calls
                     /\ op' = [OpRec("register", name, 0, 0) EXCEPT
                                 !.units = units, !.ok = TRUE,
                                 !.isect = "unconnected"]
                     /\ UNCHANGED <<registry, store, _identifiersAndUnitsCache>>
                ELSE
                  LET l == identifiersAndUnits(fresh)
                      r == RegisterConnected(name, units, l.list, adapterOk)
                  IN  /\ _identifiersAndUnitsCache' = l.list
                      /\ registry' = r.registry
                      /\ store' = r.store
                      /\ bufIds' = r.bufIds
                      /\ calls' = c.calls \o l.calls \o r.calls
                      /\ op' = [OpRec("register", name, 0, 0) EXCEPT
                                  !.units = units, !.ok = r.ok,
                                  !.isect = IF readonly THEN "readonly" ELSE "writable",
                                  \* the registry's view the call worked on
                                  !.listed = l.list[name],
                                  !.adapterOk = adapterOk]
    /\ UNCHANGED <<options, reachable, buffer, FilterState, _last_request,
                   _readOnly, requested>>

\* a registration on a record no other thread uses
DoRegister ==
  \E name \in Names, units \in Units \ {NoUnits}, fresh \in BOOLEAN, adapterOk \in BOOLEAN :
    Register(name, units, fresh, adapterOk) /\ UNCHANGED Threading

(***************************************************************************)
(* Two threads sharing the record.                                         *)
(*                                                                         *)
(* A call that has to ask the adapter takes two steps: its reads of the    *)
(* buffer and the memoized request, then its fetch and its writes; the     *)
(* other thread may run between the two. pointsInRange holds _db_pr_mtx    *)
(* from its first line to its return; point takes no lock.                 *)
(***************************************************************************)
\* each thread makes at most MaxCalls calls
MaxCalls == 1

\* a lock_guard that does not wait
lockNotTaken == TRUE

\* std::lock_guard<std::mutex> lock(_db_pr_mtx): the thread goes on once
\* the mutex is free
lockFree == _db_pr_mtx = 0

\* the thread's record once its call has returned
Returned(t, name, id, start, end, r, asked) ==
  [pc |-> "idle", n |-> thread[t].n + 1, name |-> name, id |-> id,
   start |-> start, end |-> end, ret |-> r.ret, asked |-> asked,
   isect |-> r.isect, cached |-> r.cached]

\* the thread's record between the reads and the writes of its call
Reading(t, name, id, start, end, isect, cached) ==
  [thread[t] EXCEPT !.pc = "read", !.name = name, !.id = id, !.start = start,
                    !.end = end, !.ret = << >>, !.asked = FALSE,
                    !.isect = isect, !.cached = cached]

\* pointsInRange up to its decision to fetch: the lock, the memo check, the
\* connection check, the buffer's span and its classification
ThreadPointsInRangeBegin(t) ==
  \E id \in Ids, a \in Times, b \in Times :
    /\ a <= b
    /\ thread[t].pc = "idle"
    /\ thread[t].n < MaxCalls
    /\ lockFree
    /\ LET r == pointsInRange(Begin, id, TimeRange(a, b))
           c == checkConnected(Begin)
       IN  IF r.isect \in {"memo", "unconnected", "intersect_other_internal"}
           THEN /\ Commit(r)
                /\ UNCHANGED _db_pr_mtx
                /\ thread' = [thread EXCEPT
                                ![t] = Returned(t, "pointsInRange", id, a, b, r, FALSE)]
                /\ op' = [OpRec("pointsInRange", id, a, b) EXCEPT
                            !.ret = r.ret, !.isect = r.isect, !.cached = r.cached,
                            !.wasEmpty = (buffer[id] = {})]
           ELSE /\ connected' = c.connected
                /\ calls' = c.calls
                /\ _db_pr_mtx' = t
                /\ thread' = [thread EXCEPT
                                ![t] = Reading(t, "pointsInRange", id, a, b,
                                               r.isect, r.cached)]
                /\ op' = OpRec("pointsInRange.read", id, a, b)
                /\ UNCHANGED <<buffer, _last_request>>
    /\ UNCHANGED <<AdapterData, Registration, FilterState, _readOnly, requested>>

\* pointsInRange from its fetch to its return, which releases the lock
ThreadPointsInRangeEnd(t) ==
  /\ thread[t].pc = "read"
  /\ thread[t].name = "pointsInRange"
  /\ LET j == thread[t]
         r == RangeFetch(Begin, j.id, TimeRange(j.start, j.end), j.cached, j.isect)
     IN  /\ Commit(r)
         /\ _db_pr_mtx' = 0
         /\ thread' = [thread EXCEPT
                         ![t] = Returned(t, "pointsInRange", j.id, j.start, j.end,
                                         r, TRUE)]
         /\ op' = [OpRec("pointsInRange", j.id, j.start, j.end) EXCEPT
                     !.ret = r.ret, !.isect = r.isect, !.cached = r.cached,
                     !.wasEmpty = (buffer[j.id] = {})]
  /\ UNCHANGED <<AdapterData, Registration, FilterState, _readOnly, requested>>

\* point up to its decision to fetch: the buffer read, the connection check
\* and the memo check, without any lock
ThreadPointBegin(t) ==
  \E id \in Ids, time \in Times :
    /\ thread[t].pc = "idle"
    /\ thread[t].n < MaxCalls
    /\ LET r == point(Begin, id, time)
           c == checkConnected(Begin)
           fetches == /\ c.connected
                      /\ ~BufPoint(buffer, id, time).isValid
                      /\ ~RequestContains(_last_request, id, time)
       IN  IF ~fetches
           THEN /\ Commit(r)
                /\ thread' = [thread EXCEPT
                                ![t] = Returned(t, "point", id, time, time, r, FALSE)]
                /\ op' = [OpRec("point", id, time, time) EXCEPT
                            !.ret = r.ret, !.wasEmpty = (buffer[id] = {})]
           ELSE /\ connected' = c.connected
                /\ calls' = c.calls
                /\ thread' = [thread EXCEPT
                                ![t] = Reading(t, "point", id, time, time, "",
                                               EmptyRange)]
                /\ op' = OpRec("point.read", id, time, time)
                /\ UNCHANGED <<buffer, _last_request>>
    /\ UNCHANGED <<AdapterData, Registration, FilterState, _readOnly, requested,
                   _db_pr_mtx>>

\* point from its fetch to its return
ThreadPointEnd(t) ==
  /\ thread[t].pc = "read"
  /\ thread[t].name = "point"
  /\ LET j == thread[t]
         r == PointFetch(Begin, j.id, j.start, NoPoint)
     IN  /\ Commit(r)
         /\ thread' = [thread EXCEPT
                         ![t] = Returned(t, "point", j.id, j.start, j.start, r, TRUE)]
         /\ op' = [OpRec("point", j.id, j.start, j.start) EXCEPT
                     !.ret = r.ret, !.wasEmpty = (buffer[j.id] = {})]
  /\ UNCHANGED <<AdapterData, Registration, FilterState, _readOnly, requested,
                 _db_pr_mtx>>

(***************************************************************************)
(* Nested calls and the mutex.                                             *)
(*                                                                         *)
(* invalidate, pointBefore and its iterative search take no lock of their  *)
(* own; the reset(id) and the pointsInRange they call lock _db_pr_mtx on   *)
(* entry and release it on return. Registration locks on entry and holds   *)
(* the mutex over checkConnected and identifiersAndUnits.                  *)
(***************************************************************************)
\* a lock_guard whose scope ends without releasing the mutex
unlockSkipped(t) == t

\* the mutex after the lock_guard of thread t has gone out of scope
unlock(t) == 0

\* the thread's record once a call of this section has returned
Done(t, name, id, time, ret) ==
  [IdleThread EXCEPT !.n = thread[t].n + 1, !.name = name, !.id = id,
                     !.start = time, !.end = time, !.ret = ret]

\* the thread's record inside a call of this section; k counts the probes
Inside(t, pc, name, id, time, k) ==
  [thread[t] EXCEPT !.pc = pc, !.name = name, !.id = id, !.start = time,
                    !.end = k, !.ret = << >>]

\* invalidate up to its call of reset(id): the guard and removeRecord
ThreadInvalidateBegin(t) ==
  \E id \in WriteIds :
    /\ thread[t].pc = "idle"
    /\ thread[t].n < MaxCalls
    /\ LET c == IF ~readonly THEN checkConnected(Begin) ELSE Begin
       IN  /\ connected' = c.connected
           /\ IF ~readonly /\ c.connected
              THEN /\ store' = removeRecordStore(store, id)
                   /\ registry' = removeRecordRegistry(registry, id)
                   /\ calls' = invalidateCalls(c, id)
                   /\ thread' = [thread EXCEPT
                                   ![t] = Inside(t, "reset", "invalidate", id, 0, 0)]
              ELSE /\ calls' = c.calls
                   /\ thread' = [thread EXCEPT
                                   ![t] = Done(t, "invalidate", id, 0, << >>)]
                   /\ UNCHANGED <<store, registry>>
    /\ op' = OpRec("invalidate.guard", id, 0, 0)
    /\ UNCHANGED <<options, reachable, buffer, _last_request, Registration,
                   FilterState, _readOnly, requested, _db_pr_mtx>>

\* the reset(id) that invalidate calls: lock, guard, reset, unlock
ThreadResetId(t) ==
  /\ thread[t].pc = "reset"
  /\ lockFree
  /\ LET id == thread[t].id
         c  == IF ~readonly THEN checkConnected(Begin) ELSE Begin
     IN  /\ connected' = c.connected
         /\ calls' = c.calls
         /\ IF ~readonly /\ c.connected
            THEN /\ buffer' = BufResetId(buffer, id)
                 /\ _last_request' = RequestCleared
            ELSE UNCHANGED <<buffer, _last_request>>
         /\ thread' = [thread EXCEPT ![t] = Done(t, "invalidate", id, 0, << >>)]
         /\ op' = OpRec("invalidate", id, 0, 0)
  /\ _db_pr_mtx' = unlock(t)
  /\ UNCHANGED <<AdapterData, Registration, FilterState, _readOnly, requested>>

\* pointBefore up to its iterative search: the buffer read, the memo check
\* and the connection check, without any lock
ThreadPointBeforeBegin(t) ==
  \E id \in WriteIds, time \in Times :
    /\ thread[t].pc = "idle"
    /\ thread[t].n < MaxCalls
    /\ LET r == pointBefore(Begin, id, time)
           c == checkConnected(Begin)
           searches == /\ ~BufPointBefore(buffer, id, time).isValid
                       /\ ~RequestContains(_last_request, id, time - 1)
                       /\ c.connected
                       /\ options.searchIteratively
       IN  IF ~searches
           THEN /\ Commit(r)
                /\ thread' = [thread EXCEPT
                                ![t] = Done(t, "pointBefore", id, time, r.ret)]
                /\ op' = [OpRec("pointBefore", id, time, time) EXCEPT !.ret = r.ret]
           ELSE /\ connected' = c.connected
                /\ calls' = c.calls
                /\ thread' = [thread EXCEPT
                                ![t] = Inside(t, "probe", "pointBefore", id, time, 1)]
                /\ op' = OpRec("pointBefore.search", id, time, time)
                /\ UNCHANGED <<buffer, _last_request>>
    /\ UNCHANGED <<AdapterData, Registration, FilterState, _readOnly, requested,
                   _db_pr_mtx>>

\* what pointBefore holds after its k-th probe q: the filtered last point of
\* a non-empty window, the empty probe when the search goes on, and the
\* adapter's bound lookup after the last empty probe
AfterProbe(j, k, q) ==
  IF Len(q.ret) > 0
  THEN [q EXCEPT !.ret = <<pointWithOpcFilter(q.ret[Len(q.ret)])>>]
  ELSE IF k < iterativeSearchMaxIterations THEN q
  ELSE BoundTail(q, [q EXCEPT !.ret = <<NoPoint>>],
                 selectPrevious(j.id, j.start), "selectPrevious", j.id, j.start)

\* the thread after its k-th probe: at the next probe, or back from pointBefore
ProbeDone(t, j, k, more, r) ==
  /\ Commit(r)
  /\ thread' = [thread EXCEPT
                  ![t] = IF more
                         THEN Inside(t, "probe", "pointBefore", j.id, j.start, k + 1)
                         ELSE Done(t, "pointBefore", j.id, j.start, r.ret)]
  /\ op' = IF more THEN OpRec("pointBefore.search", j.id, j.start, j.start)
                   ELSE [OpRec("pointBefore", j.id, j.start, j.start) EXCEPT
                           !.ret = r.ret]

\* one probe of searchPreviousIteratively: pointsInRange locks, looks the
\* window up and unlocks; a non-empty window or the last probe ends the
\* search and pointBefore returns
ThreadProbe(t) ==
  /\ thread[t].pc = "probe"
  /\ lockFree
  /\ LET j == thread[t]
         k == j.end
         q == Probe(Begin, j.id,
                    TimeRange(j.start - k * iterativeSearchStride,
                              j.start - (k - 1) * iterativeSearchStride - 1))
     IN  ProbeDone(t, j, k, Len(q.ret) = 0 /\ k < iterativeSearchMaxIterations,
                   AfterProbe(j, k, q))
  /\ _db_pr_mtx' = unlock(t)
  /\ UNCHANGED <<AdapterData, Registration, FilterState, _readOnly, requested>>

\* registration's first line: the lock
ThreadRegisterBegin(t) ==
  \E name \in WriteIds :
    /\ thread[t].pc = "idle"
    /\ thread[t].n < MaxCalls
    /\ lockFree
    /\ _db_pr_mtx' = t
    /\ thread' = [thread EXCEPT ![t] = Inside(t, "register", "register", name, 0, 0)]
    /\ op' = OpRec("register.lock", name, 0, 0)
    /\ calls' = << >>
    /\ UNCHANGED <<AdapterData, Registration, FilterState, _readOnly, requested,
                   connected, buffer, _last_request>>

\* registration under the lock, and the unlock at its return
ThreadRegisterEnd(t) ==
  /\ thread[t].pc = "register"
  /\ \E units \in Units \ {NoUnits}, fresh \in BOOLEAN, adapterOk \in BOOLEAN :
       Register(thread[t].id, units, fresh, adapterOk)
  /\ _db_pr_mtx' = unlock(t)
  /\ thread' = [thread EXCEPT ![t] = Done(t, "register", thread[t].id, 0, << >>)]

(***************************************************************************)
(* Environment: the backing store goes away and comes back.                *)
(***************************************************************************)
NetDown ==
  /\ reachable
  /\ reachable' = FALSE
  /\ connected' = FALSE
  /\ op' = OpRec("netDown", "", 0, 0)
  /\ calls' = << >>
  /\ UNCHANGED <<store, registry, options, buffer, bufIds, _last_request,
                 _readOnly, _filterType, _opcFilterCodes,
                 _identifiersAndUnitsCache, requested, Threading>>

NetUp ==
  /\ ~reachable
  /\ reachable' = TRUE
  /\ op' = OpRec("netUp", "", 0, 0)
  /\ calls' = << >>
  /\ UNCHANGED <<store, registry, options, connected, buffer, bufIds,
                 _last_request, _readOnly, _filterType, _opcFilterCodes,
                 _identifiersAndUnitsCache, requested, Threading>>

(***************************************************************************)
(* Specifications.                                                         *)
(*                                                                         *)
(* Registration reads and writes the registry, the identifier cache and    *)
(* the buffer tier's identifier list only; lookups, writes, resets and     *)
(* filter changes read and write the points, the memoized request and the  *)
(* filter only. The two halves share the connection and the readonly       *)
(* policy. Spec explores the point half, SpecReg the registration half.    *)
(***************************************************************************)
\* the record as DbPointRecord::DbPointRecord leaves it
InitRecord ==
  /\ connected = FALSE
  /\ buffer = [i \in Ids |-> {}]
  /\ bufIds = NoIds
  /\ _last_request = request_t("", EmptyRange)
  /\ _readOnly = FALSE
  /\ _filterType = "OpcPassThrough"
  /\ _opcFilterCodes = {}
  /\ _identifiersAndUnitsCache = NoIds
  /\ _db_pr_mtx = 0
  /\ thread = [t \in Threads |-> IdleThread]
  /\ requested = FALSE
  /\ op = OpRec("init", "", 0, 0)
  /\ calls = << >>

AdapterOptions(ro, uc, ca, si, sb) ==
  [implementationReadonly |-> ro, supportsUnitsColumn |-> uc, canAssignUnits |-> ca,
   searchIteratively |-> si, supportsSinglyBoundQuery |-> sb]

\* the shapes of the store's series: empty, a point at every grid instant,
\* at the even ones, at the odd ones
StoreTickSets ==
  {{}, Ticks, {k \in Ticks : k % 2 = 0}, {k \in Ticks : k % 2 = 1}}

\* the store holds raw points for the first identifier and none for the second
StoreInits ==
  {[i \in Ids |-> IF i = "A" THEN {RawPoint(k) : k \in SA} ELSE {}] :
     SA \in StoreTickSets}

\* the adapters of the point half: one that is searched iteratively, one
\* that answers singly-bounded queries
LookupAdapters ==
  {AdapterOptions(FALSE, TRUE, TRUE, TRUE, FALSE),
   AdapterOptions(FALSE, TRUE, TRUE, FALSE, TRUE)}

Init ==
  /\ InitRecord
  /\ store \in StoreInits
  /\ registry = [n \in Ids |-> "u1"]
  /\ options \in LookupAdapters
  /\ reachable = TRUE

Next ==
  \/ DoPointsInRange
  \/ DoPoint
  \/ DoPointBefore
  \/ DoPointAfter
  \/ DoAddPoint
  \/ DoReset
  \/ DoResetId

Spec == Init /\ [][Next]_vars

\* writes against a store that comes and goes, under both readonly sources
InitWrite ==
  /\ InitRecord
  /\ store \in StoreInits
  /\ registry = [n \in Ids |-> "u1"]
  /\ options \in {AdapterOptions(ro, TRUE, TRUE, FALSE, TRUE) : ro \in BOOLEAN}
  /\ reachable \in BOOLEAN

NextWrite ==
  \/ DoAddPoint
  \/ DoAddPoints
  \/ DoPointsInRange
  \/ DoSetReadonly
  \/ NetDown
  \/ NetUp

SpecWrite == InitWrite /\ [][NextWrite]_vars

InitReg ==
  /\ InitRecord
  /\ store = [i \in Ids |-> {}]
  /\ registry \in [Ids -> {Absent, NoUnits, "u1"}]
  /\ options \in {AdapterOptions(ro, uc, ca, FALSE, FALSE) :
                    <<ro, uc, ca>> \in BOOLEAN \X BOOLEAN \X BOOLEAN}
  /\ reachable \in BOOLEAN

NextReg ==
  \/ DoRegister
  \/ DoSetReadonly
  \/ NetDown
  \/ NetUp

SpecReg == InitReg /\ [][NextReg]_vars

\* invalidation among lookups and writes, on a writable record whose store
\* is reachable and holds points of the first identifier
InitInv ==
  /\ InitRecord
  /\ store \in {st \in StoreInits : st["A"] # {}}
  /\ registry = [n \in Ids |-> "u1"]
  /\ options \in LookupAdapters
  /\ reachable = TRUE

NextInv ==
  \/ DoInvalidate
  \/ DoPointsInRange
  \/ DoPoint
  \/ DoPointBefore
  \/ DoPointAfter
  \/ DoAddPoint

SpecInv == InitInv /\ [][NextInv]_vars

\* lookups under a quality filter that changes, against a reachable store
\* that holds a point of the first identifier at every grid instant, with
\* quality codes 0 and 1 alternating
InitFilter ==
  /\ InitRecord
  /\ store = [i \in Ids |-> IF i = "A" THEN {RawPoint(k) : k \in Ticks} ELSE {}]
  /\ registry = [n \in Ids |-> "u1"]
  /\ options \in LookupAdapters
  /\ reachable = TRUE

NextFilter ==
  \/ DoPointsInRange
  \/ DoPoint
  \/ DoPointBefore
  \/ DoPointAfter
  \/ DoSetOpcFilterType
  \/ DoClearOpcFilterList
  \/ DoAddOpcFilterCode
  \/ DoRemoveOpcFilterCode

SpecFilter == InitFilter /\ [][NextFilter]_vars

\* two threads that look points up in a reachable store, each in its own
\* order and at its own pace; the store holds no point, or one of the first
\* identifier at every grid instant
InitThreads ==
  /\ InitRecord
  /\ store \in {st \in StoreInits : Cardinality(st["A"]) \in {0, Cardinality(Ticks)}}
  /\ registry = [n \in Ids |-> "u1"]
  /\ options = AdapterOptions(FALSE, TRUE, TRUE, FALSE, TRUE)
  /\ reachable = TRUE

NextThreads ==
  \/ \E t \in Threads : ThreadPointsInRangeBegin(t)
  \/ \E t \in Threads : ThreadPointsInRangeEnd(t)
  \/ \E t \in Threads : ThreadPointBegin(t)
  \/ \E t \in Threads : ThreadPointEnd(t)

SpecThreads == InitThreads /\ [][NextThreads]_vars

\* lookups against a store that goes away and comes back
InitDown ==
  /\ InitRecord
  /\ store \in StoreInits
  /\ registry = [n \in Ids |-> "u1"]
  /\ options \in LookupAdapters
  /\ reachable \in BOOLEAN

NextDown ==
  \/ DoPointsInRange
  \/ DoPoint
  \/ DoPointBefore
  \/ DoPointAfter
  \/ NetDown
  \/ NetUp

SpecDown == InitDown /\ [][NextDown]_vars

\* range lookups over a series a producer writes to while the quality filter
\* is changed: the written point sits unfiltered in the buffer tier, the
\* adapter's copy of it comes back filtered
InitMerge ==
  /\ InitRecord
  /\ store \in StoreInits
  /\ registry = [n \in Ids |-> "u1"]
  /\ options = AdapterOptions(FALSE, TRUE, TRUE, FALSE, TRUE)
  /\ reachable = TRUE

NextMerge ==
  \/ DoPointsInRange
  \/ DoAddPoint
  \/ DoSetOpcFilterType

SpecMerge == InitMerge /\ [][NextMerge]_vars

\* lookups and per-identifier resets of a record whose readonly state is
\* set by the adapter or by the caller
InitResetId ==
  /\ InitRecord
  /\ store \in StoreInits
  /\ registry = [n \in Ids |-> "u1"]
  /\ options \in {AdapterOptions(ro, TRUE, TRUE, FALSE, TRUE) : ro \in BOOLEAN}
  /\ reachable = TRUE

NextResetId ==
  \/ DoPointsInRange
  \/ DoResetId
  \/ DoSetReadonly

SpecResetId == InitResetId /\ [][NextResetId]_vars

\* two threads that invalidate, look up the point before an instant and
\* register, against a reachable store that is searched iteratively
InitLock ==
  /\ InitRecord
  /\ store = [i \in Ids |-> IF i = "A" THEN {RawPoint(k) : k \in Ticks} ELSE {}]
  /\ registry = [n \in Ids |-> "u1"]
  /\ options = AdapterOptions(FALSE, TRUE, TRUE, TRUE, FALSE)
  /\ reachable = TRUE

NextLock ==
  \/ \E t \in Threads : ThreadInvalidateBegin(t)
  \/ \E t \in Threads : ThreadResetId(t)
  \/ \E t \in Threads : ThreadPointBeforeBegin(t)
  \/ \E t \in Threads : ThreadProbe(t)
  \/ \E t \in Threads : ThreadRegisterBegin(t)
  \/ \E t \in Threads : ThreadRegisterEnd(t)

\* a thread inside a call goes on whenever it can: a step that stays
\* possible is taken. For the probe the same weak fairness is written over
\* the thread's position, which every probe changes: the thread does not
\* stay for ever at a probe whose mutex is free.
Runs(t) ==
  /\ WF_vars(ThreadResetId(t))
  /\ WF_vars(ThreadRegisterEnd(t))
  /\ \A k \in 1..iterativeSearchMaxIterations :
       []<>~(thread[t].pc = "probe" /\ thread[t].end = k /\ lockFree)

SpecLock == InitLock /\ [][NextLock]_vars /\ \A t \in Threads : Runs(t)

(***************************************************************************)
(* Properties of the range lookup and of the memoized request.             *)
(***************************************************************************)
IsSelectRange(c) == c.fn = "selectRange"

\* the selectRange calls among the adapter calls of an operation
SelectCalls(cs) == SelectSeq(cs, IsSelectRange)

\* the query range of the last operation
OpRange == TimeRange(op.start, op.end)

\* the points the quality filter keeps among the store's points of id in r
KeptStore(id, r) == SeqToSet(pointsWithOpcFilter(selectRange(id, r)))

\* C1: whatever happened before, pointsInRange(id, range) returns points
\* with pairwise distinct times, all inside range, and the same call issued
\* again at once returns the same sequence.
C1_RangeLookupDistinctInRangeIdempotent ==
  op.name = "pointsInRange" =>
    /\ \A i, j \in 1..Len(op.ret) : i # j => op.ret[i].time # op.ret[j].time
    /\ \A i \in 1..Len(op.ret) :
         op.start <= op.ret[i].time /\ op.ret[i].time <= op.end
    /\ pointsInRange(Begin, op.id, OpRange).ret = op.ret

\* a left-fill lookup has merged adapter points with buffered points
C1_Witness ==
  /\ op.name = "pointsInRange"
  /\ op.isect = "intersect_left"
  /\ Len(op.ret) >= 2
  /\ Len(SelectCalls(calls)) = 1

\* C2: a connected pointsInRange returns exactly the points the quality
\* filter keeps among the store's points of id in the range; stated for the
\* case the claim singles out, a query inside the span of a non-empty buffer.
C2_RangeLookupExact ==
  (/\ op.name = "pointsInRange"
   /\ op.isect = "intersect_other_internal"
   /\ ~op.wasEmpty)
  => SeqToSet(op.ret) = KeptStore(op.id, OpRange)

\* C3: after a pointsInRange(id, r) that found the buffer empty for id and
\* fetched a non-empty result with the single adapter call selectRange(id, r),
\* the next operation, if it is pointsInRange(id, r2) with r2 inside r, makes
\* no selectRange call and returns the buffer's points of r2.
C3_SecondLookupFromBuffer ==
  [][ (/\ op.name = "pointsInRange"
       /\ op.wasEmpty
       /\ Len(op.ret) > 0
       /\ SelectCalls(calls) = <<Call("selectRange", op.id, op.start, op.end)>>
       /\ op'.name = "pointsInRange"
       /\ op'.id = op.id
       /\ op.start <= op'.start /\ op'.end <= op.end)
      => /\ SelectCalls(calls') = << >>
         /\ op'.ret = BufPointsInRange(buffer, op.id, TimeRange(op'.start, op'.end))
    ]_vars

\* a lookup for a proper part of the memoized range was answered by the
\* buffer, with points and without any adapter call
C3_Witness ==
  /\ op.name = "pointsInRange"
  /\ op.isect = "memo"
  /\ Len(op.ret) > 0
  /\ calls = << >>
  /\ _last_request.id = op.id
  /\ (_last_request.range.start < op.start \/ op.end < _last_request.range.end)

FullQuery == Call("selectRange", op.id, op.start, op.end)

\* the adapter calls for the gaps left and right of the cached span
LeftGap == Call("selectRange", op.id, op.start, op.cached.start)
RightGap == Call("selectRange", op.id, op.cached.end, op.end)

\* C5 as stated: left_overlap asks the adapter once, for
\* [query.start, cached.start]; right_overlap once, for
\* [cached.end, query.end]; external twice, for both gaps; none of the three
\* sends the whole query range, only the disjoint case does. Stated for a
\* buffer that holds points of id, so that there is a cached span.
C5_GapQueriesNeverFull ==
  (op.name = "pointsInRange" /\ ~op.wasEmpty) =>
    /\ op.isect = "intersect_left" => SelectCalls(calls) = <<LeftGap>>
    /\ op.isect = "intersect_right" => SelectCalls(calls) = <<RightGap>>
    /\ op.isect = "intersect_other_external" => SelectCalls(calls) = <<LeftGap, RightGap>>
    /\ FullQuery \in SeqToSet(calls) => op.isect = "intersect_none"

\* C5 amended: the adapter calls are exactly the gap calls above (and the
\* whole query range in the disjoint case, none when the buffer or the memo
\* answers); a gap call coincides with the whole query range exactly when the
\* query meets the cached span at a boundary instant only: a left_overlap
\* with query.end = cached.start or a right_overlap with query.start =
\* cached.end; an external lookup never sends the whole query range.
C5_GapQueries ==
  op.name = "pointsInRange" =>
    /\ op.isect = "intersect_left" => SelectCalls(calls) = <<LeftGap>>
    /\ op.isect = "intersect_right" => SelectCalls(calls) = <<RightGap>>
    /\ op.isect = "intersect_other_external" => SelectCalls(calls) = <<LeftGap, RightGap>>
    /\ op.isect = "intersect_none" => SelectCalls(calls) = <<FullQuery>>
    /\ op.isect \in {"memo", "unconnected", "intersect_other_internal"}
         => SelectCalls(calls) = << >>
    /\ (FullQuery \in SeqToSet(calls) /\ op.isect # "intersect_none")
         <=> \/ op.isect = "intersect_left" /\ op.end = op.cached.start
             \/ op.isect = "intersect_right" /\ op.start = op.cached.end

\* a left-fill lookup asked the adapter for the gap only, the query reaching
\* into the cached span
C5_Witness ==
  /\ op.name = "pointsInRange"
  /\ op.isect = "intersect_left"
  /\ op.cached.start < op.end
  /\ SelectCalls(calls) = <<LeftGap>>
  /\ FullQuery \notin SeqToSet(calls)

(***************************************************************************)
(* Readonly policy and writes (checked under SpecWrite).                   *)
(***************************************************************************)
IsInsert(c) == c.fn \in {"insertSingle", "insertRange"}

\* C6: in every reachable state readonly() equals (the adapter declares
\* itself readonly, or the value the caller last requested with
\* setReadonly); with an adapter that declares itself readonly, readonly()
\* is true whatever setReadonly calls have been made.
C6_EffectiveReadonly ==
  /\ readonly = (options.implementationReadonly \/ requested)
  /\ options.implementationReadonly => readonly

\* setReadonly(false) has just been called on a record whose adapter declares
\* itself readonly, and the record is still readonly
C6_Witness ==
  /\ op.name = "setReadonly"
  /\ ~op.ok
  /\ ~requested
  /\ options.implementationReadonly
  /\ readonly

\* C7: addPoint and addPoints called on a record that is effectively
\* readonly, or whose backing store is unreachable, issue no insertSingle or
\* insertRange call and leave the buffer, the memoized request and the store
\* as they were; called on a writable record whose store is reachable, they
\* put the point(s) into the buffer and hand them to the adapter, with one
\* insertSingle (addPoint) or one insertRange (addPoints) as the last call.
C7_WritesGated ==
  [][op'.name \in {"addPoint", "addPoints"} =>
       IF readonly \/ ~reachable
       THEN /\ SelectSeq(calls', IsInsert) = << >>
            /\ buffer' = buffer
            /\ _last_request' = _last_request
            /\ store' = store
       ELSE /\ connected'
            /\ Len(SelectSeq(calls', IsInsert)) = 1
            /\ calls'[Len(calls')] =
                 Call(IF op'.name = "addPoint" THEN "insertSingle" ELSE "insertRange",
                      op'.id, op'.start, op'.end)
            /\ SeqToSet(op'.ret) \subseteq buffer'[op'.id]
            /\ SeqToSet(op'.ret) \subseteq store'[op'.id]
            /\ _last_request' = _last_request]_vars

\* an addPoint on a connected record that the caller has made readonly: the
\* adapter was not called and the buffered series lacks the point
C7_Witness ==
  /\ op.name = "addPoint"
  /\ readonly
  /\ connected
  /\ calls = << >>
  /\ op.ret[1] \notin buffer[op.id]
  /\ op.ret[1] \notin store[op.id]

(***************************************************************************)
(* Registration (checked under SpecReg). The name's entry is read from the *)
(* identifier list the call consulted (op.listed).                         *)
(***************************************************************************)
IsAssign(c) == c.fn = "assignUnitsToRecord"
IsRemove(c) == c.fn = "removeRecord"
IsInsertId(c) == c.fn = "insertIdentifierAndUnits"

\* C8: on a reachable read-only store, registration succeeds and registers
\* the name locally exactly when the name exists and (the units match or the
\* store does not track units), or the name exists with unset units and the
\* store allows assignment; in every other case it fails, makes no
\* assignUnitsToRecord call and registers nothing locally.
C8_ReadonlyRegistration ==
  [][(op'.name = "register" /\ op'.isect = "readonly") =>
       LET nameExists == op'.listed # Absent
           unitsMatch == op'.listed = op'.units
           accepted   ==
             \/ nameExists /\ (unitsMatch \/ ~options.supportsUnitsColumn)
             \/ nameExists /\ op'.listed = NoUnits /\ options.canAssignUnits
       IN  IF accepted
           THEN op'.ok /\ bufIds'[op'.id] = op'.units
           ELSE /\ ~op'.ok
                /\ SelectSeq(calls', IsAssign) = << >>
                /\ bufIds' = bufIds]_vars

\* C9: on a reachable writable store, registration issues removeRecord(name)
\* exactly when the name exists with units that are set and differ from the
\* requested ones, and in that case the name is then registered afresh.
C9_RemoveOnUnitsMismatch ==
  (op.name = "register" /\ op.isect = "writable") =>
    LET differ == op.listed \notin {Absent, NoUnits} /\ op.listed # op.units
    IN  /\ (SelectSeq(calls, IsRemove) # << >>) <=> differ
        /\ differ => /\ calls[Len(calls)] = Call("removeRecord", op.id, 0, 0)
                     /\ op.ok
                     /\ bufIds[op.id] = op.units

\* C10: on a reachable writable store, registration of a non-empty name
\* succeeds whenever the name is absent or its units do not match and the
\* adapter's insertIdentifierAndUnits succeeds (local registration always
\* succeeds); with matching units it succeeds with a local registration and
\* no registry insert.
C10_WritableRegistration ==
  (op.name = "register" /\ op.isect = "writable") =>
    LET nameExists == op.listed # Absent
        unitsMatch == op.listed = op.units
    IN  /\ ((~nameExists \/ ~unitsMatch) /\ op.adapterOk) => op.ok
        /\ (nameExists /\ unitsMatch) =>
             /\ op.ok
             /\ bufIds[op.id] = op.units
             /\ SelectSeq(calls, IsInsertId) = << >>

IsRegistryCall(c) ==
  c.fn \in {"idUnitsList", "insertIdentifierAndUnits", "assignUnitsToRecord",
            "removeRecord"}

\* C11: with an unreachable backing store, registration of a non-empty name
\* makes no registry call on the adapter (idUnitsList,
\* insertIdentifierAndUnits, assignUnitsToRecord, removeRecord), registers
\* the identifier in the buffer tier only and succeeds; registration of the
\* empty name fails and touches neither the adapter nor the buffer tier.
C11_UnreachableRegistersLocally ==
  [][op'.name = "register" =>
       IF op'.id = ""
       THEN /\ ~op'.ok
            /\ calls' = << >>
            /\ UNCHANGED <<bufIds, buffer, registry, store, connected,
                           _identifiersAndUnitsCache>>
       ELSE ~reachable =>
              /\ op'.ok
              /\ SelectSeq(calls', IsRegistryCall) = << >>
              /\ bufIds' = [bufIds EXCEPT ![op'.id] = op'.units]
              /\ UNCHANGED <<registry, store, _identifiersAndUnitsCache>>]_vars

\* a name the registry does not list has been registered while the store
\* was away: the buffer tier knows it, the registry still does not
C11_Witness ==
  /\ op.name = "register"
  /\ op.isect = "unconnected"
  /\ ~reachable
  /\ op.ok
  /\ bufIds[op.id] = op.units
  /\ registry[op.id] = Absent
  /\ SelectSeq(calls, IsRegistryCall) = << >>
  /\ calls # << >>

(***************************************************************************)
(* Invalidation (checked under SpecInv).                                   *)
(***************************************************************************)
LookupNames == {"point", "pointBefore", "pointAfter", "pointsInRange"}

\* neither the buffer nor the backing store holds a point of id
Vacant(id) == buffer[id] = {} /\ store[id] = {}

\* the lookup that o records returned no valid point
NoData(o) == \A i \in 1..Len(o.ret) : ~o.ret[i].isValid

\* C12: on a writable record whose store is reachable, invalidate(id) issues
\* exactly one removeRecord(id), as its last adapter call, and leaves the
\* buffer's series of id, the backing store's record of id and the memoized
\* request empty; from then on, as long as no point of id is written, the
\* series stays empty in buffer and store and every point, pointBefore,
\* pointAfter and pointsInRange for id returns no data.
C12_InvalidateEmptiesSeries ==
  [][/\ (op'.name = "invalidate" /\ ~readonly /\ reachable) =>
          /\ Len(SelectSeq(calls', IsRemove)) = 1
          /\ calls'[Len(calls')] = Call("removeRecord", op'.id, 0, 0)
          /\ buffer'[op'.id] = {}
          /\ store'[op'.id] = {}
          /\ _last_request' = request_t("", TimeRange(0, 0))
     /\ \A id \in Ids :
          (Vacant(id) /\ ~(op'.name \in {"addPoint", "addPoints"} /\ op'.id = id)) =>
            /\ Vacant(id)'
            /\ (op'.name \in LookupNames /\ op'.id = id) => NoData(op')]_vars

\* a lookup for the first identifier, whose points the store held at the
\* start, has asked the adapter after an invalidation and got no data
C12_Witness ==
  /\ op.name \in LookupNames
  /\ op.id = "A"
  /\ store["A"] = {}
  /\ \E i \in 1..Len(calls) : calls[i].fn \in {"selectRange", "selectPrevious", "selectNext"}
  /\ NoData(op)
  /\ Len(op.ret) > 0

(***************************************************************************)
(* Quality filter (checked under SpecFilter).                              *)
(***************************************************************************)
ListFilters == {"OpcWhiteList", "OpcBlackList"}

\* the raw point's code lets it through the list filter in force
Passes(raw) ==
  IF _filterType = "OpcWhiteList"
  THEN raw.quality \in _opcFilterCodes
  ELSE raw.quality \notin _opcFilterCodes

\* the raw point as the list filters hand it on
Marked(raw) == MkPoint(raw.time, raw.value, opc_rtx_override, raw.confidence)

\* the store's points of id the list filter in force keeps
KeptRaw(id) == {Marked(raw) : raw \in {x \in store[id] : Passes(x)}}

\* C13: under the WhiteList (BlackList) filter with code set S, every point
\* in the buffer and every valid point a lookup returns is a raw point of
\* the store whose quality code is in S (not in S), with time, value and
\* confidence unchanged and the quality replaced by the override marker, so
\* that a raw point whose code fails the list is neither returned nor
\* buffered; and what a pointsInRange or point call returns within a range
\* it fetched from the adapter is exactly the kept raw points of that range.
C13_ListFiltersKeepExactly ==
  _filterType \in ListFilters =>
    /\ \A id \in Ids : buffer[id] \subseteq KeptRaw(id)
    /\ op.name \in LookupNames =>
         /\ \A i \in 1..Len(op.ret) :
              op.ret[i].isValid => op.ret[i] \in KeptRaw(op.id)
         /\ \A i \in 1..Len(calls) :
              (calls[i].fn = "selectRange" /\ op.name = "pointsInRange") =>
                {p \in SeqToSet(op.ret) :
                   calls[i].start <= p.time /\ p.time <= calls[i].end}
                  = {p \in KeptRaw(op.id) :
                       /\ calls[i].start <= p.time /\ p.time <= calls[i].end
                       /\ op.start <= p.time /\ p.time <= op.end}
         /\ (op.name = "point" /\ SelectCalls(calls) # << >>) =>
              (op.ret[1].isValid <=> \E p \in KeptRaw(op.id) : p.time = op.start)

\* a range lookup under WhiteList {0} has fetched raw points with codes 0
\* and 1 from the adapter and returned fewer points than it fetched
C13_Witness ==
  /\ _filterType = "OpcWhiteList"
  /\ _opcFilterCodes = {0}
  /\ op.name = "pointsInRange"
  /\ SelectCalls(calls) # << >>
  /\ Len(op.ret) > 0
  /\ Len(op.ret) < Len(selectRange(op.id, OpRange))
  /\ \E raw \in store[op.id] :
       /\ raw.quality = 1
       /\ op.start <= raw.time /\ raw.time <= op.end

(***************************************************************************)
(* Threads (checked under SpecThreads).                                    *)
(***************************************************************************)
\* C14: every operation on the buffer, the memoized request or the filter
\* runs its read-then-write inside the record's mutex, point and the bound
\* lookups like pointsInRange: a thread that is between its read and its
\* write holds the mutex, so no two threads are there at the same time.
C14_ReadThenWriteUnderMutex ==
  /\ \A t \in Threads : thread[t].pc = "read" => _db_pr_mtx = t
  /\ Cardinality({t \in Threads : thread[t].pc = "read"}) <= 1

\* both threads have made one call, pointsInRange for the same identifier
\* and range, and have returned
BothLookedUp(id, r) ==
  \A t \in Threads :
    /\ thread[t].pc = "idle"
    /\ thread[t].n = 1
    /\ thread[t].name = "pointsInRange"
    /\ thread[t].id = id
    /\ TimeRange(thread[t].start, thread[t].end) = r

IsConnect(c) == c.fn = "doConnect"
IsSelect(c) == c.fn \in {"selectRange", "selectPrevious", "selectNext"}

\* what the buffer tier alone answers to the lookup that o records
BufferAnswer(o) ==
  CASE o.name = "point"         -> <<BufPoint(buffer, o.id, o.start)>>
    [] o.name = "pointBefore"   -> <<BufPointBefore(buffer, o.id, o.start)>>
    [] o.name = "pointAfter"    -> <<BufPointAfter(buffer, o.id, o.start)>>
    [] o.name = "pointsInRange" -> BufPointsInRange(buffer, o.id, TimeRange(o.start, o.end))

\* C16: with an unreachable backing store, point, pointBefore, pointAfter
\* and pointsInRange return what the buffer tier returns for the same
\* arguments, make no selectRange, selectPrevious or selectNext call and
\* leave the buffer and the memoized request as they were; no lookup makes
\* more than 5 connect attempts.
C16_UnreachableServesBuffer ==
  [][op'.name \in LookupNames =>
       /\ Len(SelectSeq(calls', IsConnect)) <= 5
       /\ ~reachable =>
            /\ op'.ret = BufferAnswer(op')
            /\ SelectSeq(calls', IsSelect) = << >>
            /\ buffer' = buffer
            /\ _last_request' = _last_request
            /\ ~connected']_vars

\* a range lookup has tried to connect, given up and returned the points
\* the buffer held
C16_Witness ==
  /\ op.name = "pointsInRange"
  /\ op.isect = "unconnected"
  /\ ~reachable
  /\ Len(op.ret) > 0
  /\ calls # << >>
  /\ \A i \in 1..Len(calls) : calls[i].fn = "doConnect"


(***************************************************************************)
(* C17: bound lookups against an adapter with singly-bounded queries.      *)
(***************************************************************************)
\* the points the buffer tier and the store hold for id
Held(id) == buffer[id] \cup store[id]

\* the times held for id strictly before t, and strictly after t
HeldBefore(id, t) == {p.time : p \in {q \in Held(id) : q.time < t}}
HeldAfter(id, t) == {p.time : p \in {q \in Held(id) : q.time > t}}

\* r is the bound answer for the candidate times S: an invalid point when S
\* is empty, else a valid point at the latest (earliest) time of S
IsLatestOf(r, S) ==
  IF S = {} THEN r = <<NoPoint>>
  ELSE Len(r) = 1 /\ r[1].isValid /\ r[1].time \in S /\ \A x \in S : x <= r[1].time

IsEarliestOf(r, S) ==
  IF S = {} THEN r = <<NoPoint>>
  ELSE Len(r) = 1 /\ r[1].isValid /\ r[1].time \in S /\ \A x \in S : r[1].time <= x

SinglyBoundedPassThrough ==
  /\ reachable
  /\ options.supportsSinglyBoundQuery
  /\ ~options.searchIteratively
  /\ _filterType = "OpcPassThrough"

\* C17: with a reachable adapter that answers singly-bounded queries and is
\* not searched iteratively, and the PassThrough filter, pointBefore(id, t)
\* returns the point of the greatest time before t among the points the
\* buffer and the store hold for id, and an invalid point only when there is
\* none; pointAfter returns the point of the least time after t.
C17_BoundLookupNearest ==
  [][SinglyBoundedPassThrough =>
       /\ op'.name = "pointBefore" => IsLatestOf(op'.ret, HeldBefore(op'.id, op'.start))
       /\ op'.name = "pointAfter" => IsEarliestOf(op'.ret, HeldAfter(op'.id, op'.start))]_vars


(***************************************************************************)
(* C18: singly-bounded queries need the adapter's capability.              *)
(***************************************************************************)
IsSinglyBounded(c) == c.fn \in {"selectPrevious", "selectNext"}

\* C18: the calls of an operation hold a selectPrevious or a selectNext only
\* when the adapter's options declare supportsSinglyBoundQuery; an adapter
\* without the capability never receives one.
C18_SinglyBoundedOnlyIfSupported ==
  SelectSeq(calls, IsSinglyBounded) # << >> => options.supportsSinglyBoundQuery

\* a bound lookup that missed the buffer, searched the adapter without the
\* capability iteratively, found nothing and returned at the guard
C18_Witness ==
  /\ op.name \in {"pointBefore", "pointAfter"}
  /\ ~options.supportsSinglyBoundQuery
  /\ connected
  /\ op.ret = <<NoPoint>>
  /\ SelectCalls(calls) # << >>
  /\ store[op.id] # {}


(***************************************************************************)
(* C19: the iterative search is bounded.                                   *)
(***************************************************************************)
IsProbe(c) == c.fn \in {"probeEmpty", "probeFound"}

\* the probe windows of an operation, in the order they were probed
Probes(cs) == SelectSeq(cs, IsProbe)

\* window i of a search before (after) t: stride instants wide, adjacent to
\* window i-1, moving away from t
WindowBefore(t, i) ==
  TimeRange(t - i * iterativeSearchStride, t - (i - 1) * iterativeSearchStride - 1)
WindowAfter(t, i) ==
  TimeRange(t + (i - 1) * iterativeSearchStride + 1, t + i * iterativeSearchStride)

\* C19: with an adapter that is searched iteratively, one pointBefore (or
\* pointAfter) makes at most iterativeSearchMaxIterations probes; probe i is
\* pointsInRange over the window of iterativeSearchStride instants that is i
\* strides away from t, each adjacent to the one before; every probe but the
\* last found nothing, and the search ends with the operation's return.
C19_IterativeSearchBounded ==
  [][(op'.name \in {"pointBefore", "pointAfter"} /\ options.searchIteratively) =>
       LET P == Probes(calls')
       IN  /\ Len(P) <= iterativeSearchMaxIterations
           /\ \A i \in 1..Len(P) :
                /\ P[i].id = op'.id
                /\ TimeRange(P[i].start, P[i].end) =
                     IF op'.name = "pointBefore" THEN WindowBefore(op'.start, i)
                                                 ELSE WindowAfter(op'.start, i)
                /\ P[i].end - P[i].start + 1 = iterativeSearchStride
                /\ i < Len(P) => P[i].fn = "probeEmpty"
           /\ Len(op'.ret) = 1
           /\ (Len(P) > 0 /\ Len(P) < iterativeSearchMaxIterations) => P[Len(P)].fn = "probeFound"]_vars

\* a search before t that probed every window allowed and found the store's
\* point in the last one
C19_Witness ==
  /\ op.name = "pointBefore"
  /\ options.searchIteratively
  /\ Len(Probes(calls)) = iterativeSearchMaxIterations
  /\ Probes(calls)[iterativeSearchMaxIterations].fn = "probeFound"
  /\ op.ret[1].isValid


(***************************************************************************)
(* C20: the iterative search under a quality filter.                       *)
(***************************************************************************)
\* the last probe of the operation found points
SearchFound(cs) ==
  /\ Probes(cs) # << >>
  /\ Probes(cs)[Len(Probes(cs))].fn = "probeFound"

\* C20: with an adapter that is searched iteratively, under every filter
\* type and code set, a pointBefore (pointAfter) whose probe found points in
\* a window returns a valid point of that window, one of the filtered points
\* the probe left in the buffer tier: a point that passed the filter is not
\* dropped.
C20_IterativeSearchKeepsFound ==
  [][(op'.name \in {"pointBefore", "pointAfter"} /\ options.searchIteratively
        /\ SearchFound(calls')) =>
       LET P == Probes(calls')
           w == P[Len(P)]
       IN  /\ op'.ret[1].isValid
           /\ w.start <= op'.ret[1].time /\ op'.ret[1].time <= w.end
           /\ op'.ret[1] \in buffer'[op'.id]]_vars


(***************************************************************************)
(* C21: the merge of buffered and fetched points.                          *)
(***************************************************************************)
\* the fetches that merge buffered points with fetched ones
Overlaps == {"intersect_left", "intersect_right", "intersect_other_external"}

\* the adapter holds a point of id at time t that the current filter keeps
AdapterKeeps(id, t) ==
  \E q \in store[id] : q.time = t /\ pointWithOpcFilter(q).isValid

\* C21: when pointsInRange merges buffered points with fetched, filtered
\* points over a left, right or external overlap, and the buffer and the
\* adapter both hold a point at a boundary instant of the cached span inside
\* the query, the buffer's point is the one in the result and the one the
\* buffer holds afterwards.
C21_MergeKeepsBufferPoint ==
  [][(op'.name = "pointsInRange" /\ op'.isect \in Overlaps) =>
       \A p \in buffer[op'.id] :
         (/\ p.time \in {op'.cached.start, op'.cached.end}
          /\ op'.start <= p.time /\ p.time <= op'.end
          /\ AdapterKeeps(op'.id, p.time))
         => /\ p \in SeqToSet(op'.ret)
            /\ p \in buffer'[op'.id]]_vars


(***************************************************************************)
(* C22: a change of the quality filter flushes the buffer tier.            *)
(***************************************************************************)
\* the buffer tier holds no point of any identifier
Flushed(buf) == \A i \in Ids : buf[i] = {}

\* C22: setting the filter type to a different type, adding a code,
\* removing a code of the set or clearing the set leaves the buffer tier
\* without a point for any identifier; setting the filter type to its current
\* value or removing a code the set does not hold leaves the buffer as it was.
C22_FilterChangeFlushesBuffer ==
  [][/\ op'.name = "setOpcFilterType" =>
          IF op'.id # _filterType THEN Flushed(buffer') /\ _filterType' = op'.id
                                  ELSE buffer' = buffer /\ _filterType' = _filterType
     /\ op'.name \in {"addOpcFilterCode", "clearOpcFilterList"} => Flushed(buffer')
     /\ op'.name = "removeOpcFilterCode" =>
          IF op'.start \in _opcFilterCodes THEN Flushed(buffer')
                                           ELSE buffer' = buffer]_vars

\* the filter type was changed while the buffer tier held points, and the
\* buffer tier holds none now
C22_Witness ==
  /\ op.name = "setOpcFilterType"
  /\ ~op.wasEmpty
  /\ op.id = _filterType
  /\ Flushed(buffer)


(***************************************************************************)
(* C23: reset(id).                                                         *)
(***************************************************************************)
\* C23: reset(id) empties the buffer tier's series of id and clears the
\* memoized request, whatever the record's effective readonly state; the
\* buffered points of every other identifier and the store's records stay as
\* they were, and the adapter is not asked to remove a record.
C23_ResetIdClearsBufferAndMemo ==
  [][op'.name = "resetId" =>
       /\ buffer'[op'.id] = {}
       /\ _last_request' = RequestCleared
       /\ \A i \in Ids \ {op'.id} : buffer'[i] = buffer[i]
       /\ store' = store
       /\ registry' = registry
       /\ SelectSeq(calls', IsRemove) = << >>]_vars


(***************************************************************************)
(* C24: soundness of the memoized request.                                 *)
(***************************************************************************)
\* the times of the store's points of id in range r that the current
\* quality filter keeps
KeptTimes(id, r) ==
  {q.time : q \in {x \in store[id] : /\ r.start <= x.time /\ x.time <= r.end
                                     /\ pointWithOpcFilter(x).isValid}}

\* C24: whenever the memoized request names an identifier and a non-empty
\* range, the buffer tier holds a point at every time at which the store
\* holds a point of that identifier in the range that the current quality
\* filter keeps; a lookup answered through the memo hides no stored point.
C24_MemoSound ==
  (_last_request.id \in Ids /\ _last_request.range # EmptyRange) =>
    \A t \in KeptTimes(_last_request.id, _last_request.range) :
      \E p \in buffer[_last_request.id] : p.time = t


(***************************************************************************)
(* C25: registration and the buffer tier's identifier registry.            *)
(***************************************************************************)
\* C25: whenever registerAndGetIdentifierForSeriesWithUnits(name, units)
\* returns success, on any path, the buffer tier holds name with the given
\* units when the call returns; whenever it returns failure, the buffer
\* tier's identifier registry is as it was before the call.
C25_SuccessRegistersInBuffer ==
  [][op'.name = "register" =>
       IF op'.ok THEN op'.id \in Ids /\ bufIds'[op'.id] = op'.units
                 ELSE bufIds' = bufIds]_vars


(***************************************************************************)
(* C26: the mutex and the nested calls.                                    *)
(***************************************************************************)
\* where a thread is about to lock the mutex, and where it holds it
AboutToLock == {"reset", "probe"}
Holding == {"register"}

\* C26: a thread that is about to lock the mutex (in the reset(id) that
\* invalidate calls, in the pointsInRange that the iterative search calls)
\* does not hold it already; the mutex is held only by a thread inside a
\* locked operation, so every return has released it; and every operation a
\* thread has started is completed in the end.
C26_NoSelfDeadlock ==
  /\ [](\A t \in Threads :
          /\ thread[t].pc \in AboutToLock => _db_pr_mtx # t
          /\ _db_pr_mtx = t => thread[t].pc \in Holding)
  /\ \A t \in Threads : (thread[t].pc # "idle") ~> (thread[t].pc = "idle")

\* thread 1 has removed the record and waits in reset(id) for the mutex
\* that thread 2 holds in its registration
C26_Witness ==
  /\ thread[1].pc = "reset"
  /\ thread[2].pc = "register"
  /\ _db_pr_mtx = 2

====
